---- MODULE Spec2Model ----
(***************************************************************************)
(* Model of the websocket session layer of qwery-core:                     *)
(*   src/src/qwery_core/server_components/websocket.py                     *)
(* ChatState.add_to_history, WebsocketAgentManager (connect, disconnect,   *)
(* handle_message, cleanup, _broadcast, _send_json, _heartbeat) and the    *)
(* websocket_endpoint receive loop.                                        *)
(*                                                                         *)
(* The program is asyncio code: one task per endpoint, one heartbeat task  *)
(* per connection, one cleanup task.  A task runs without interruption     *)
(* between two awaits, so an action of this model is "resume a task and    *)
(* run it up to its next await".                                           *)
(***************************************************************************)
EXTENDS Integers, Sequences, FiniteSets, TLC

\* ---------------------------------------------------------------- bounds
\* Connections ever opened, distinct chat keys, message contents, data
\* source values, and the longest history the pure add_to_history
\* specification explores.
NConn == 3
NKey == 3
MaxContent == 1
MaxDb == 1
MaxHistLen == 4
MaxHistContent == 2
\* Connections opened and keys used by each scenario specification.
CapConns == 3
CapKeys == 1
EvictConns == 3
EvictKeys == 3
RoomConns == 2
RoomKeys == 2
ReapConns == 2
ReapKeys == 1
DbConns == 3
DbKeys == 3
IdleConns == 2
IdleKeys == 2
LeaveConns == 3
LeaveKeys == 1
MaxIdLen == 2
KeyEnds == 2
MaxCodecVal == 2
CmdConns == 2
CmdKeys == 1
EchoConns == 2
EchoKeys == 1
FaultConns == 2
FaultKeys == 1
KindConns == 2
KindKeys == 1
BesideConns == 2
BesideKeys == 2

\* ------------------------------------------------------ program constants
\* The three limits are read from the environment (websocket.py:39-41);
\* the model runs the program configured with small values.
MAX_CONNECTIONS_PER_CHAT == 2
MAX_CHAT_HISTORY_LENGTH == 3
MAX_CHAT_STATES == 2
\* INACTIVITY_TIMEOUT, in clock ticks of the model.
INACTIVITY_TIMEOUT == 1

Conns == 1..NConn
Keys == 1..NKey
Contents == 1..MaxContent
DbValues == 1..MaxDb
ObjIds == 1..(NKey + NConn)
NoDb == 0
NoObj == 0
Ages == 0..(INACTIVITY_TIMEOUT + 1)

VARIABLES
    \* -- pure add_to_history specification
    hist,        \* ChatState.history of the state under test
    histPre,     \* the history before the last add_to_history call
    histArg,     \* the entry the last call appended (role 'none' before any call)
    \* -- chat keys of identifier pairs
    endPair,     \* endpoint -> the (project_id, chat_id) of its path
    kStore,      \* key string -> the ChatState stored under it
    kGot,        \* endpoint -> the pairs whose frames were sent to it
    \* -- protocol messages
    cPc,         \* "idle", "built", "encoded", "inbound" or "decoded"
    cMsg,        \* the ProtocolMessage that was built (NoMsg when none)
    cWire,       \* the dictionary to_dict produced or a client sent
    cBack,       \* the ProtocolMessage model_validate returned
    \* -- manager state
    nextConn,    \* the next unused connection id
    keyOf,       \* connection -> its chat key (0 before its endpoint starts)
    pc,          \* connection -> where its endpoint task is suspended
    sock,        \* connection -> "open", "client" (closed by the peer), "server"
    closeCode,   \* connection -> the code the server closed it with (0: none)
    hb,          \* connection -> heartbeat task: "none","run","stopped","exited"
    conns,       \* _connections: key -> set of registered connections
    store,       \* _chat_states: key -> ChatState object id (NoObj: absent)
    order,       \* _chat_states iteration order (OrderedDict)
    objDb,       \* ChatState object -> database_url
    objHist,     \* ChatState object -> history
    actOrder,    \* _last_activity iteration order (dict insertion order)
    actAge,      \* _last_activity: key -> ticks since the recorded time
    ref,         \* connection -> the ChatState object its handler holds
    rIdx,        \* connection -> history records already replayed
    rLive,       \* connection -> replay still iterates the object's list
    rFrozen,     \* connection -> the list the replay iterates once detached
    cur,         \* connection -> the frame being handled
    callDb,      \* connection -> database_url passed to handle_prompt
    bPending,    \* connection -> send tasks of its _broadcast not yet run
    outKind,     \* connection -> the frame its handler is sending out
    swPc,        \* cleanup task: "idle" or "closing"
    swRest,      \* cleanup: expired keys not yet processed
    swKey,       \* cleanup: the key being processed
    swSnap,      \* cleanup: connections of the key still to close
    \* -- observations (history variables of the model)
    rx,          \* connection -> connect-time frame kinds sent to it
    sent,        \* handler -> recipient -> frames sent while handling cur
    bTargets,    \* handler -> registered-minus-excluded when its broadcast began
    touchAge,    \* key -> ticks since the last connect or inbound frame
    lastSet,     \* key -> value of the last Set database command (NoDb: none)
    lostSince,   \* key -> its ChatState left the store since that command
    echoMarks,   \* connection -> the records its replay has still to send that
                 \* are also broadcast to it: [d: distance from the end of
                 \* the list, h: the handler that broadcasts the record]
    replayedFrom, \* connection -> handlers whose reply its replay delivered
    inFlight,    \* connections with a prompt handler call pending, in the
                 \* order their user frames were received
    overtaken,   \* connections of inFlight whose key got the entries of a
                 \* later received user frame appended meanwhile
    hbFailed     \* connections whose heartbeat task had an emit fail

histVars == <<hist, histPre, histArg>>
keyVars == <<endPair, kStore, kGot>>
codecVars == <<cPc, cMsg, cWire, cBack>>
pureVars == <<histVars, keyVars, codecVars>>
mgrVars == <<nextConn, keyOf, pc, sock, closeCode, hb, conns, store, order,
             objDb, objHist, actOrder, actAge, ref, rIdx, rLive, rFrozen,
             cur, callDb, bPending, outKind, swPc, swRest, swKey, swSnap>>
obsVars == <<rx, sent, bTargets, touchAge, lastSet, lostSince, echoMarks,
            replayedFrom, inFlight, overtaken, hbFailed>>
vars == <<pureVars, mgrVars, obsVars>>

\* ---------------------------------------------------------------- helpers
Min(S) == CHOOSE x \in S : \A y \in S : x <= y

SeqRemove(s, x) == SelectSeq(s, LAMBDA e : e # x)

InSeq(s, x) == \E i \in 1..Len(s) : s[i] = x

\* Python's s[i:] for any integer i.
PySliceFrom(s, i) ==
    LET n == Len(s)
        start == IF i < 0 THEN (IF n + i < 0 THEN 0 ELSE n + i)
                 ELSE (IF i > n THEN n ELSE i)
    IN  SubSeq(s, start + 1, n)

IsSystem(e) == e.role = "system"
NotSystem(e) == e.role # "system"

\* -------------------------------------------------- ChatState.add_to_history
\* keep_count = MAX_CHAT_HISTORY_LENGTH - len(system_msgs)
KeepCount(system_msgs) == MAX_CHAT_HISTORY_LENGTH - Len(system_msgs)

\* self.history = system_msgs + other_msgs[-keep_count:]
Trimmed(h) ==
    LET system_msgs == SelectSeq(h, IsSystem)
        other_msgs == SelectSeq(h, NotSystem)
    IN  system_msgs \o PySliceFrom(other_msgs, 0 - KeepCount(system_msgs))

\* len(self.history) > MAX_CHAT_HISTORY_LENGTH
TooLong(h) == Len(h) > MAX_CHAT_HISTORY_LENGTH

AddToHistory(h, role, content) ==
    LET appended == Append(h, [role |-> role, content |-> content])
    IN  IF TooLong(appended) THEN Trimmed(appended) ELSE appended

\* ------------------------------------------------------------ wire frames
\* An inbound frame after ProtocolMessage.model_validate: its kind and the
\* populated payload variants.  cmd is the key of a Set command's argument
\* ("get" stands for a command that is not Set; "database_plain" for a Set
\* command with the key database whose arguments came as the plain
\* dictionary to_dict writes, which model_validate keeps as a dict, see
\* ValidateArguments); val is the message content or the command's value.
Frame(kind, hbeat, cmd, msg, val) ==
    [kind |-> kind, hbeat |-> hbeat, cmd |-> cmd, msg |-> msg, val |-> val]

NoFrame == Frame("none", FALSE, "none", "none", 0)

Frames ==
    {Frame("Message", FALSE, "none", "user", x) : x \in Contents}
    \cup {Frame("Command", FALSE, a, "none", v) :
            a \in {"database", "database_url"}, v \in DbValues}
    \cup {Frame("Command", FALSE, "role", "none", 1),
          Frame("Command", FALSE, "get", "none", 1),
          Frame("Message", FALSE, "none", "assistant", 1),
          Frame("Heartbeat", TRUE, "none", "none", 0),
          Frame("Message", FALSE, "none", "none", 0),
          Frame("Message", TRUE, "none", "user", 1),
          Frame("Handshake", FALSE, "none", "user", 1),
          Frame("Command", FALSE, "none", "user", 1)}

\* ProtocolPayload.get_payload_type, for the variants a Frame carries.
PayloadType(f) ==
    IF f.hbeat THEN "heartbeat"
    ELSE IF f.msg # "none" THEN "message"
    ELSE IF f.cmd # "none" THEN "command"
    ELSE "unknown"

\* A variant the heartbeat property is tried against: only the kind of the
\* frame selects the heartbeat branch.
DispatchKindOnly(f) ==
    IF f.kind = "Heartbeat" THEN "heartbeat"
    ELSE IF f.kind = "Command" /\ f.cmd # "none" THEN "command"
    ELSE IF f.msg = "none" THEN "invalid"
    ELSE IF f.msg # "user" THEN "skip"
    ELSE "prompt"

\* A variant the empty payload property is tried against: a frame without
\* a message is skipped like a message of another role.
DispatchSkipEmpty(f) ==
    IF f.kind = "Heartbeat" \/ PayloadType(f) = "heartbeat" THEN "heartbeat"
    ELSE IF f.kind = "Command" /\ f.cmd # "none" THEN "command"
    ELSE IF f.msg # "user" THEN "skip"
    ELSE "prompt"

\* The branch handle_message takes for a decoded frame.
Dispatch(f) ==
    IF f.kind = "Heartbeat" \/ PayloadType(f) = "heartbeat" THEN "heartbeat"
    ELSE IF f.kind = "Command" /\ f.cmd # "none" THEN "command"
    ELSE IF f.msg = "none" THEN "invalid"
    ELSE IF f.msg # "user" THEN "skip"
    ELSE "prompt"

\* A variant the data source property is tried against: a Set command that
\* only knows the database_url key.
SetsDatabaseUrlOnly(f) == f.cmd = "database_url"

\* _handle_command: does the Set command's key select the database?
SetsDatabase(f) == f.cmd \in {"database", "database_url"}

\* ------------------------------------------------------- shared structures
Resident(st) == {k \in Keys : st[k] # NoObj}

Referenced(st, rf) == {st[k] : k \in Resident(st)} \cup {rf[c] : c \in Conns}

FreeObj(st, rf) == Min(ObjIds \ Referenced(st, rf))

\* Objects nothing refers to any more are reset (garbage).
GcDb(db, st, rf) ==
    [o \in ObjIds |-> IF o \in Referenced(st, rf) THEN db[o] ELSE NoDb]
GcHist(hs, st, rf) ==
    [o \in ObjIds |-> IF o \in Referenced(st, rf) THEN hs[o] ELSE <<>>]

\* self._last_activity[key] = now
ActTouchOrder(ao, k) == IF InSeq(ao, k) THEN ao ELSE Append(ao, k)

\* now - last_active > INACTIVITY_TIMEOUT
Expired(age) == age > INACTIVITY_TIMEOUT

\* len(self._chat_states) >= MAX_CHAT_STATES (connect, line 106)
StoreFull(st) == Cardinality(Resident(st)) >= MAX_CHAT_STATES

\* Two weaker limit tests, against which the cap properties are tried: one
\* that never rejects and one that rejects one connection too late.
CapReachedNever(cs, k) == FALSE
CapReachedAbove(cs, k) == Cardinality(cs[k]) > MAX_CONNECTIONS_PER_CHAT

\* len(self._connections.get(key, [])) >= MAX_CONNECTIONS_PER_CHAT
CapReached(cs, k) == Cardinality(cs[k]) >= MAX_CONNECTIONS_PER_CHAT

\* The observations that follow a change of the store: a key whose state
\* left the store loses its touch age, and a Set value is marked lost.
TouchAfter(ta, st, st2) ==
    [k \in Keys |-> IF st2[k] = NoObj THEN 0 ELSE ta[k]]
LostAfter(ls, lset, st, st2) ==
    [k \in Keys |-> IF st[k] # NoObj /\ st2[k] = NoObj /\ lset[k] # NoDb
                    THEN TRUE ELSE ls[k]]

EmptyLog == [r \in Conns |-> <<>>]
LogSend(lg, r, kind, ok) ==
    [lg EXCEPT ![r] = Append(@, [kind |-> kind, ok |-> ok])]

\* -------------------------------------------------------------- chat keys
\* Identifier strings as sequences of characters. The route
\* "/ws/agent/{project_id}/{chat_id}" (line 487) takes any non-empty path
\* segment for either identifier, so ':' may occur in both.
Chars == {"a", ":"}
Ids == UNION {[1..n -> Chars] : n \in 1..MaxIdLen}
Pairs == Ids \X Ids
NoPair == <<>>
Ends == 1..KeyEnds

\* f"{project_id}:{chat_id}" (lines 478-480).
_chat_key(project_id, chat_id) == project_id \o <<":">> \o chat_id

KeyOfPair(p) == _chat_key(p[1], p[2])
KeyStrings == {KeyOfPair(p) : p \in Pairs}
NoState == [present |-> FALSE, writers |-> {}, db |-> NoPair]

\* ------------------------------------------------------ protocol messages
\* Model instances are records with a cls field; dictionaries (the output of
\* to_dict, the input of model_validate) are functions from their keys.
\* Strings are drawn from Vals; a str Enum member is its value.
Vals == 1..MaxCodecVal
Parties == {"server", "client"}
None == [cls |-> "None"]
NoMsg == [cls |-> "NoMsg"]

Heartbeat == [cls |-> "Heartbeat"]
ClientHandshakeRequest(project_id, chat_id) ==
    [cls |-> "ClientHandshakeRequest", project_id |-> project_id,
     chat_id |-> chat_id]
ErrorMessage(error_code, message, data, uuid) ==
    [cls |-> "ErrorMessage", error_code |-> error_code, message |-> message,
     data |-> data, uuid |-> uuid]
MessageContent(role, message_type, content, metadata) ==
    [cls |-> "MessageContent", role |-> role, message_type |-> message_type,
     content |-> content, metadata |-> metadata]
SetCommandArgument(key, value) ==
    [cls |-> "SetCommandArgument", key |-> key, value |-> value]
\* A plain dict held by Command.arguments (the Dict[str, Any] member).
DictArguments(items) == [cls |-> "dict", items |-> items]
Command(command, arguments) ==
    [cls |-> "Command", command |-> command, arguments |-> arguments]

\* ProtocolPayload: field name -> alias (lines 150-156, the variants the
\* constructors use).
Aliases ==
    [heartbeat |-> "Heartbeat", handshake |-> "Handshake", error |-> "Error",
     message |-> "Message", command |-> "Command"]
PayloadFields == DOMAIN Aliases
FieldOf(alias) == CHOOSE f \in PayloadFields : Aliases[f] = alias

\* ProtocolPayload(<field>=value): every other field is None.
ProtocolPayload(field, value) ==
    [f \in PayloadFields |-> IF f = field THEN value ELSE None]

\* ProtocolMessage.create (lines 206-221).
ProtocolMessage(id, kind, payload, from_, to) ==
    [id |-> id, kind |-> kind, payload |-> payload, from_ |-> from_, to |-> to]

create_handshake_message(project_id, chat_id, from_, to, message_id) ==
    ProtocolMessage(message_id, "Handshake",
        ProtocolPayload("handshake", ClientHandshakeRequest(project_id, chat_id)),
        from_, to)

create_text_message(role, content, from_, to, message_id) ==
    ProtocolMessage(message_id, "Message",
        ProtocolPayload("message", MessageContent(role, "text", content, None)),
        from_, to)

create_error_message(error_code, message, uuid, message_id) ==
    ProtocolMessage(message_id, "Error",
        ProtocolPayload("error", ErrorMessage(error_code, message, None, uuid)),
        "server", "client")

SetKeys == {"role", "model", "database", "Database", "database_url",
            "DATABASE_URL"}

\* The messages the four constructors build.
Constructible ==
    {create_handshake_message(p, c, "server", "client", i) :
        p \in Vals, c \in Vals, i \in Vals}
    \cup {create_text_message(r, x, fr, "client", i) :
        r \in {"user", "system", "assistant"}, x \in Vals, fr \in Parties,
        i \in Vals}
    \cup {create_error_message(e, x, u, i) :
        e \in Vals, x \in Vals, u \in Vals, i \in Vals}
    \cup {ProtocolMessage(i, "Heartbeat", ProtocolPayload("heartbeat", Heartbeat),
                          fr, "client") : i \in Vals, fr \in Parties}
    \cup {ProtocolMessage(i, "Command",
              ProtocolPayload("command",
                  Command("Set", SetCommandArgument(k, v))), "client", "server") :
            i \in Vals, k \in SetKeys, v \in Vals}

\* BaseModel.model_dump of one payload variant with by_alias=True: the
\* fields of the model under their aliases, nested models as dictionaries.
DumpArguments(a) ==
    IF a.cls = "SetCommandArgument" THEN [key |-> a.key, value |-> a.value]
    ELSE a.items

DumpVariant(v) ==
    CASE v.cls = "Heartbeat" -> <<>>
      [] v.cls = "ClientHandshakeRequest" ->
            [projectId |-> v.project_id, chatId |-> v.chat_id]
      [] v.cls = "ErrorMessage" ->
            [errorCode |-> v.error_code, message |-> v.message,
             data |-> v.data, uuid |-> v.uuid]
      [] v.cls = "MessageContent" ->
            [role |-> v.role, message_type |-> v.message_type,
             content |-> v.content, metadata |-> v.metadata]
      [] v.cls = "Command" ->
            [command |-> v.command, arguments |-> DumpArguments(v.arguments)]

\* ProtocolPayload.model_dump (lines 160-162): the fields that are None are
\* dropped.
payload_model_dump(p) ==
    [a \in {Aliases[f] : f \in {g \in PayloadFields : p[g] # None}} |->
        DumpVariant(p[FieldOf(a)])]

\* ProtocolMessage.to_dict and model_dump (lines 223-234).
to_dict(m) ==
    [id |-> m.id, kind |-> m.kind, payload |-> payload_model_dump(m.payload),
     from |-> m.from_, to |-> m.to]

\* Command.validate_arguments and the union of Command.arguments (lines
\* 126-146): a dictionary with the key "SetCommandArgument" is turned into a
\* SetCommandArgument instance; any other dictionary is an exact match of
\* the union's Dict[str, Any] member and stays a dictionary.
ValidateArguments(a) ==
    IF "SetCommandArgument" \in DOMAIN a
    THEN SetCommandArgument(a.SetCommandArgument.key, a.SetCommandArgument.value)
    ELSE DictArguments(a)

ValidateVariant(f, v) ==
    CASE f = "heartbeat" -> Heartbeat
      [] f = "handshake" -> ClientHandshakeRequest(v.projectId, v.chatId)
      [] f = "error" -> ErrorMessage(v.errorCode, v.message, v.data, v.uuid)
      [] f = "message" ->
            MessageContent(v.role, v.message_type, v.content, v.metadata)
      [] f = "command" -> Command(v.command, ValidateArguments(v.arguments))

\* ProtocolMessage.model_validate of a dictionary (lines 149-158, 193-200).
model_validate(d) ==
    [id |-> d.id, kind |-> d.kind,
     payload |-> [f \in PayloadFields |->
                    IF Aliases[f] \in DOMAIN d.payload
                    THEN ValidateVariant(f, d.payload[Aliases[f]]) ELSE None],
     from_ |-> d.from, to |-> d.to]

\* The Set command frames a client sends, in the tagged form
\* validate_arguments reads.
InboundSet ==
    {[id |-> i, kind |-> "Command",
      payload |-> [Command |->
                     [command |-> "Set",
                      arguments |->
                         [SetCommandArgument |-> [key |-> k, value |-> v]]]],
      from |-> "client", to |-> "server"] :
        i \in Vals, k \in SetKeys, v \in Vals}

\* ------------------------------------------------------------------- Init
Init ==
    /\ cPc = "idle"
    /\ cMsg = NoMsg
    /\ cWire = <<>>
    /\ cBack = NoMsg
    /\ endPair = [e \in Ends |-> NoPair]
    /\ kStore = [s \in KeyStrings |-> NoState]
    /\ kGot = [e \in Ends |-> {}]
    /\ hist = <<>>
    /\ histPre = <<>>
    /\ histArg = [role |-> "none", content |-> 0]
    /\ nextConn = 1
    /\ keyOf = [c \in Conns |-> 0]
    /\ pc = [c \in Conns |-> "new"]
    /\ sock = [c \in Conns |-> "open"]
    /\ closeCode = [c \in Conns |-> 0]
    /\ hb = [c \in Conns |-> "none"]
    /\ conns = [k \in Keys |-> {}]
    /\ store = [k \in Keys |-> NoObj]
    /\ order = <<>>
    /\ objDb = [o \in ObjIds |-> NoDb]
    /\ objHist = [o \in ObjIds |-> <<>>]
    /\ actOrder = <<>>
    /\ actAge = [k \in Keys |-> 0]
    /\ ref = [c \in Conns |-> NoObj]
    /\ rIdx = [c \in Conns |-> 0]
    /\ rLive = [c \in Conns |-> FALSE]
    /\ rFrozen = [c \in Conns |-> <<>>]
    /\ cur = [c \in Conns |-> NoFrame]
    /\ callDb = [c \in Conns |-> NoDb]
    /\ bPending = [c \in Conns |-> {}]
    /\ outKind = [c \in Conns |-> "none"]
    /\ swPc = "idle"
    /\ swRest = <<>>
    /\ swKey = 0
    /\ swSnap = {}
    /\ rx = [c \in Conns |-> {}]
    /\ sent = [c \in Conns |-> EmptyLog]
    /\ bTargets = [c \in Conns |-> {}]
    /\ touchAge = [k \in Keys |-> 0]
    /\ lastSet = [k \in Keys |-> NoDb]
    /\ lostSince = [k \in Keys |-> FALSE]
    /\ echoMarks = [c \in Conns |-> {}]
    /\ replayedFrom = [c \in Conns |-> {}]
    /\ inFlight = <<>>
    /\ overtaken = {}
    /\ hbFailed = {}

\* -------------------------------------------------- pure add_to_history
\* One call of ChatState.add_to_history on the state under test.
CallAddToHistory(role, content) ==
    /\ Len(hist) < MaxHistLen
    /\ histPre' = hist
    /\ histArg' = [role |-> role, content |-> content]
    /\ hist' = AddToHistory(hist, role, content)
    /\ UNCHANGED <<keyVars, codecVars, mgrVars, obsVars>>

HistNext ==
    \E role \in {"user", "assistant", "system"}, content \in 1..MaxHistContent :
        CallAddToHistory(role, content)

SpecHist == Init /\ [][HistNext]_vars

\* ------------------------------------------------ keys of identifier pairs
\* An endpoint starts for the path of pair p: connect computes the key and
\* creates the ChatState of the key if there is none (lines 103-113).
KeyConnect(e, p) ==
    /\ endPair[e] = NoPair
    /\ endPair' = [endPair EXCEPT ![e] = p]
    /\ kStore' = [kStore EXCEPT ![KeyOfPair(p)].present = TRUE]
    /\ UNCHANGED <<kGot, histVars, codecVars, mgrVars, obsVars>>

\* A user message of endpoint e is handled: its entries are appended to the
\* history stored under the key of e's pair and the reply is broadcast to
\* the connections registered under that key (lines 173, 178-182, 305-314).
KeyMessage(e) ==
    /\ endPair[e] # NoPair
    /\ LET key == KeyOfPair(endPair[e])
       IN  /\ kStore' = [kStore EXCEPT ![key].present = TRUE,
                                       ![key].writers = @ \cup {endPair[e]}]
           /\ kGot' = [r \in Ends |->
                         IF endPair[r] # NoPair /\ KeyOfPair(endPair[r]) = key
                         THEN kGot[r] \cup {endPair[e]} ELSE kGot[r]]
    /\ UNCHANGED <<endPair, histVars, codecVars, mgrVars, obsVars>>

\* A Set command of endpoint e on the database override is handled: the
\* override of the state stored under the key of e's pair is replaced
\* (lines 173, 178-182, 408-417).
KeySet(e) ==
    /\ endPair[e] # NoPair
    /\ kStore' = [kStore EXCEPT ![KeyOfPair(endPair[e])].present = TRUE,
                                ![KeyOfPair(endPair[e])].db = endPair[e]]
    /\ UNCHANGED <<endPair, kGot, histVars, codecVars, mgrVars, obsVars>>

NextKey ==
    \/ \E e \in Ends, p \in Pairs : KeyConnect(e, p)
    \/ \E e \in Ends : KeyMessage(e)
    \/ \E e \in Ends : KeySet(e)

SpecKey == Init /\ [][NextKey]_vars

\* ------------------------------------------------- encoding and decoding
Build(m) ==
    /\ cPc = "idle"
    /\ cPc' = "built"
    /\ cMsg' = m
    /\ UNCHANGED <<cWire, cBack, histVars, keyVars, mgrVars, obsVars>>

Encode ==
    /\ cPc = "built"
    /\ cPc' = "encoded"
    /\ cWire' = to_dict(cMsg)
    /\ UNCHANGED <<cMsg, cBack, histVars, keyVars, mgrVars, obsVars>>

\* A dictionary arrives from a client (receive_json, websocket.py:509).
Inbound(d) ==
    /\ cPc = "idle"
    /\ cPc' = "inbound"
    /\ cWire' = d
    /\ UNCHANGED <<cMsg, cBack, histVars, keyVars, mgrVars, obsVars>>

Decode ==
    /\ cPc \in {"encoded", "inbound"}
    /\ cPc' = "decoded"
    /\ cBack' = model_validate(cWire)
    /\ UNCHANGED <<cMsg, cWire, histVars, keyVars, mgrVars, obsVars>>

Forget ==
    /\ cPc = "decoded"
    /\ cPc' = "idle"
    /\ cMsg' = NoMsg
    /\ cWire' = <<>>
    /\ cBack' = NoMsg
    /\ UNCHANGED <<histVars, keyVars, mgrVars, obsVars>>

NextCodec ==
    \/ \E m \in Constructible : Build(m)
    \/ Encode
    \/ \E d \in InboundSet : Inbound(d)
    \/ Decode
    \/ Forget

SpecCodec == Init /\ [][NextCodec]_vars

\* ---------------------------------------------------------------- sending
\* What a send on the transport of r can do to the caller of _send_json:
\* "ok" (delivered), "swallowed" (send_json raised RuntimeError, which
\* _send_json catches: the transport was closed by the server) or "raised"
\* (send_json raised something else, which _send_json lets through: the
\* case _heartbeat's "except Exception" handles).
DirectSend(r) ==
    IF sock[r] = "open" THEN {"ok"}
    ELSE IF sock[r] = "server" THEN {"swallowed"}
    ELSE {"swallowed", "raised"}

KeysUsed == Cardinality({k \in Keys : \E c \in Conns : keyOf[c] = k})

\* ---------------------------------------------------------------- connect
\* connect, lines 104-110: the state evicted to make room for key k.
EvictVictim(k) ==
    IF store[k] = NoObj /\ StoreFull(store) THEN Head(order) ELSE 0

\* websocket_endpoint -> connect, from accept() to the await of the
\* handshake send (lines 103-142) or of the policy close (lines 119-123).
Connect(k) ==
    /\ nextConn <= NConn
    /\ k <= KeysUsed + 1
    /\ LET c == nextConn
           victim == EvictVictim(k)
           st1 == IF victim # 0 THEN [store EXCEPT ![victim] = NoObj] ELSE store
           ord1 == IF victim # 0 THEN SeqRemove(order, victim) ELSE order
           ao1 == IF victim # 0 THEN SeqRemove(actOrder, victim) ELSE actOrder
           aa1 == IF victim # 0 THEN [actAge EXCEPT ![victim] = 0] ELSE actAge
           isNew == store[k] = NoObj
           obj == IF isNew THEN FreeObj(st1, ref) ELSE store[k]
           st2 == [st1 EXCEPT ![k] = obj]
           db1 == IF isNew THEN [objDb EXCEPT ![obj] = NoDb] ELSE objDb
           hs1 == IF isNew THEN [objHist EXCEPT ![obj] = <<>>] ELSE objHist
           reject == CapReached(conns, k)
           rf2 == IF reject THEN ref ELSE [ref EXCEPT ![c] = obj]
       IN  /\ nextConn' = c + 1
           /\ keyOf' = [keyOf EXCEPT ![c] = k]
           /\ store' = st2
           /\ order' = Append(SeqRemove(ord1, k), k)
           /\ ref' = rf2
           /\ objDb' = GcDb(db1, st2, rf2)
           /\ objHist' = GcHist(hs1, st2, rf2)
           /\ touchAge' = TouchAfter([touchAge EXCEPT ![k] = 0], store, st2)
           /\ lostSince' = LostAfter(lostSince, lastSet, store, st2)
           /\ IF reject
              THEN /\ sock' = [sock EXCEPT ![c] = "server"]
                   /\ closeCode' = [closeCode EXCEPT ![c] = 1008]
                   /\ pc' = [pc EXCEPT ![c] = "rejected"]
                   /\ actOrder' = ao1
                   /\ actAge' = aa1
                   /\ UNCHANGED <<hb, conns, rx>>
              ELSE /\ hb' = [hb EXCEPT ![c] = "run"]
                   /\ conns' = [conns EXCEPT ![k] = @ \cup {c}]
                   /\ actOrder' = ActTouchOrder(ao1, k)
                   /\ actAge' = [aa1 EXCEPT ![k] = 0]
                   /\ rx' = [rx EXCEPT ![c] = {"Handshake"}]
                   /\ pc' = [pc EXCEPT ![c] = "hs"]
                   /\ UNCHANGED <<sock, closeCode>>
    /\ UNCHANGED <<hbFailed, inFlight, overtaken, echoMarks, replayedFrom,
                   pureVars, rIdx, rLive, rFrozen, cur, callDb, bPending,
                   outKind, swPc, swRest, swKey, swSnap, sent, bTargets,
                   lastSet>>

\* Does the replay of c read the list its ChatState holds now?  It does
\* when _send_history is about to be called (the for loop takes
\* chat_state.history then) and while the loop iterates a list that
\* add_to_history has not replaced.
ReplayLive(c) == pc[c] = "hs" \/ rLive[c]

\* The records _send_history has still to send to c.
ReplayRest(c) ==
    IF ReplayLive(c)
    THEN SubSeq(objHist[ref[c]], rIdx[c] + 1, Len(objHist[ref[c]]))
    ELSE rFrozen[c]

\* connect resumed after the handshake send, or _send_history resumed after
\* the send of a record (lines 143-147, 380-394): send the next record, or
\* return to the endpoint, which awaits receive_json; a send that raises
\* takes the endpoint's "except Exception" path (lines 501-504).
Replay(c) ==
    /\ pc[c] \in {"hs", "replay"}
    /\ LET rest == ReplayRest(c)
       IN  IF rest = <<>>
           THEN /\ pc' = [pc EXCEPT ![c] = "recv"]
                /\ ref' = [ref EXCEPT ![c] = NoObj]
                /\ rIdx' = [rIdx EXCEPT ![c] = 0]
                /\ rLive' = [rLive EXCEPT ![c] = FALSE]
                /\ echoMarks' = [echoMarks EXCEPT ![c] = {}]
                /\ UNCHANGED <<rFrozen, rx, closeCode, replayedFrom>>
           ELSE \E out \in DirectSend(c) :
                IF out = "raised"
                THEN /\ pc' = [pc EXCEPT ![c] = "done"]
                     /\ closeCode' = [closeCode EXCEPT ![c] = 4401]
                     /\ ref' = [ref EXCEPT ![c] = NoObj]
                     /\ rIdx' = [rIdx EXCEPT ![c] = 0]
                     /\ rLive' = [rLive EXCEPT ![c] = FALSE]
                     /\ rFrozen' = [rFrozen EXCEPT ![c] = <<>>]
                     /\ rx' = [rx EXCEPT ![c] = @ \cup {"History"}]
                     /\ echoMarks' = [echoMarks EXCEPT ![c] = {}]
                     /\ UNCHANGED replayedFrom
                ELSE /\ pc' = [pc EXCEPT ![c] = "replay"]
                     /\ rx' = [rx EXCEPT ![c] = @ \cup {"History"}]
                     /\ LET hit == {m \in echoMarks[c] : m.d = Len(rest) - 1}
                        IN  /\ echoMarks' = [echoMarks EXCEPT ![c] = @ \ hit]
                            /\ replayedFrom' =
                                 [replayedFrom EXCEPT ![c] =
                                    IF out = "ok"
                                    THEN @ \cup {m.h : m \in hit} ELSE @]
                     /\ IF ReplayLive(c)
                        THEN /\ rIdx' = [rIdx EXCEPT ![c] = @ + 1]
                             /\ rLive' = [rLive EXCEPT ![c] = TRUE]
                             /\ UNCHANGED rFrozen
                        ELSE /\ rFrozen' = [rFrozen EXCEPT ![c] = Tail(@)]
                             /\ UNCHANGED <<rIdx, rLive>>
                     /\ UNCHANGED <<ref, closeCode>>
    /\ objDb' = GcDb(objDb, store, ref')
    /\ objHist' = GcHist(objHist, store, ref')
    /\ UNCHANGED <<hbFailed, inFlight, overtaken, pureVars, nextConn, keyOf, sock, hb, conns, store, order,
                   actOrder, actAge, cur, callDb, bPending, outKind, swPc,
                   swRest, swKey, swSnap, sent, bTargets, touchAge, lastSet,
                   lostSince>>

\* --------------------------------------------------------- handle_message
\* The frames handle_message sends to the sender before its first await.
ReplyLog(c, f) ==
    LET d == Dispatch(f)
    IN  IF d = "heartbeat" THEN LogSend(EmptyLog, c, "Heartbeat", TRUE)
        ELSE IF d = "command" /\ SetsDatabase(f)
             THEN LogSend(EmptyLog, c, "SystemText", TRUE)
        ELSE IF d = "invalid" THEN LogSend(EmptyLog, c, "invalid_payload", TRUE)
        ELSE EmptyLog

\* receive_json returns frame f on c; handle_message runs to its first
\* await: the send of its reply, or the call of handle_prompt (lines
\* 173-240, 396-428).
Receive(c, f) ==
    /\ pc[c] = "recv"
    /\ sock[c] = "open"
    /\ LET k == keyOf[c]
           isNew == store[k] = NoObj
           obj == IF isNew THEN FreeObj(store, ref) ELSE store[k]
           st2 == [store EXCEPT ![k] = obj]
           d == Dispatch(f)
           sets == d = "command" /\ SetsDatabase(f)
           db1 == IF sets THEN [objDb EXCEPT ![obj] = f.val] ELSE objDb
           rf2 == IF d = "prompt" THEN [ref EXCEPT ![c] = obj] ELSE ref
           dbSet == d = "command" /\ f.cmd \in {"database", "database_url"}
       IN  /\ actOrder' = ActTouchOrder(actOrder, k)
           /\ actAge' = [actAge EXCEPT ![k] = 0]
           /\ store' = st2
           /\ order' = IF isNew THEN Append(order, k) ELSE order
           /\ ref' = rf2
           /\ objDb' = GcDb(db1, st2, rf2)
           /\ objHist' = GcHist(objHist, st2, rf2)
           /\ callDb' = [callDb EXCEPT ![c] = IF d = "prompt" THEN db1[obj] ELSE NoDb]
           /\ pc' = [pc EXCEPT ![c] = IF d = "prompt" THEN "prompt" ELSE "ret"]
           /\ cur' = [cur EXCEPT ![c] = f]
           /\ sent' = [sent EXCEPT ![c] = ReplyLog(c, f)]
           /\ touchAge' = [touchAge EXCEPT ![k] = 0]
           /\ lastSet' = IF dbSet THEN [lastSet EXCEPT ![k] = f.val] ELSE lastSet
           /\ lostSince' = IF dbSet THEN [lostSince EXCEPT ![k] = FALSE] ELSE lostSince
           /\ inFlight' = IF d = "prompt" THEN Append(inFlight, c) ELSE inFlight
           /\ UNCHANGED overtaken
    /\ UNCHANGED <<hbFailed, echoMarks, replayedFrom,
                   pureVars, nextConn, keyOf, sock, closeCode, hb, conns, rIdx,
                   rLive, rFrozen, bPending, outKind, swPc, swRest, swKey,
                   swSnap, rx, bTargets>>

\* A frame that model_validate rejects: the endpoint replies invalid_message
\* and loops (lines 514-526); handle_message is not called.
ParseError(c) ==
    /\ pc[c] = "recv"
    /\ sock[c] = "open"
    /\ pc' = [pc EXCEPT ![c] = "ret"]
    /\ cur' = [cur EXCEPT ![c] = Frame("Undecodable", FALSE, "none", "none", 0)]
    /\ sent' = [sent EXCEPT ![c] = LogSend(EmptyLog, c, "invalid_message", TRUE)]
    /\ UNCHANGED <<hbFailed, inFlight, overtaken, echoMarks, replayedFrom,
                   pureVars, nextConn, keyOf, sock, closeCode, hb, conns, store,
                   order, objDb, objHist, actOrder, actAge, ref, rIdx, rLive,
                   rFrozen, callDb, bPending, outKind, swPc, swRest, swKey,
                   swSnap, rx, bTargets, touchAge, lastSet, lostSince>>

\* A text frame that is not JSON: receive_json (line 509) parses the text
\* outside the inner try and raises a ValueError, which "except
\* WebSocketDisconnect" (line 533) does not catch: the endpoint goes to its
\* finally clause with the transport open and nothing sent.
BadJson(c) ==
    /\ pc[c] = "recv"
    /\ sock[c] = "open"
    /\ pc' = [pc EXCEPT ![c] = "aborted"]
    /\ cur' = [cur EXCEPT ![c] = Frame("NotJson", FALSE, "none", "none", 0)]
    /\ UNCHANGED <<hbFailed, inFlight, overtaken, echoMarks, replayedFrom,
                   pureVars, nextConn, keyOf, sock, closeCode, hb, conns, store,
                   order, objDb, objHist, actOrder, actAge, ref, rIdx, rLive,
                   rFrozen, callDb, bPending, outKind, swPc, swRest, swKey,
                   swSnap, rx, sent, bTargets, touchAge, lastSet, lostSince>>

\* A variant the room properties are tried against: a broadcast that
\* ignores its exclusion set.
RecipientsAll(k, exclude) == conns[k]

\* A variant the responsiveness property is tried against: a broadcast
\* that leaves out the connections whose prompt handler call is pending.
RecipientsNotSuspended(k, exclude) ==
    {r \in conns[k] \ exclude : pc[r] # "prompt"}

\* _broadcast, lines 438-445: the connections a send task is created for.
Recipients(k, exclude) == conns[k] \ exclude

\* handle_prompt returned: both entries are added to the history the handler
\* holds and the reply is broadcast to the key (lines 257-314).
PromptReturn(c) ==
    /\ pc[c] = "prompt"
    /\ LET k == keyOf[c]
           o == ref[c]
           x == cur[c].val
           a1 == Append(objHist[o], [role |-> "user", content |-> x])
           h1 == AddToHistory(objHist[o], "user", x)
           a2 == Append(h1, [role |-> "assistant", content |-> x])
           h2 == AddToHistory(h1, "assistant", x)
           reassigned == TooLong(a1) \/ TooLong(a2)
           oldList == IF TooLong(a1) THEN a1 ELSE a2
           detach == IF reassigned
                     THEN {r \in Conns : pc[r] = "replay" /\ rLive[r] /\ ref[r] = o}
                     ELSE {}
           rf2 == [r \in Conns |-> IF r = c \/ r \in detach THEN NoObj ELSE ref[r]]
           recips == Recipients(k, {})
           \* observation: what the replays that read this history will
           \* send of the two new records
           reads(r) == ref[r] = o /\ (pc[r] = "hs" \/ (pc[r] = "replay" /\ rLive[r]))
           seesReply(r) == pc[r] = "hs" \/ ~ TooLong(a1)
           listLen(r) == IF pc[r] = "hs" THEN Len(h2)
                         ELSE IF TooLong(a1) THEN Len(a1) ELSE Len(a2)
           moved(r) == {[d |-> m.d + (IF seesReply(r) THEN 2 ELSE 1), h |-> m.h] :
                           m \in echoMarks[r]}
       IN  /\ echoMarks' =
                [r \in Conns |->
                   IF reads(r)
                   THEN {m \in moved(r) : m.d < listLen(r)}
                        \cup (IF seesReply(r) /\ r \in conns[k]
                              THEN {[d |-> 0, h |-> c]} ELSE {})
                   ELSE echoMarks[r]]
           /\ UNCHANGED replayedFrom
           /\ inFlight' = SeqRemove(inFlight, c)
           /\ overtaken' = (overtaken \ {c}) \cup
                  {r \in Conns : \E i, j \in 1..Len(inFlight) :
                      i < j /\ inFlight[i] = r /\ inFlight[j] = c /\ keyOf[r] = k}
           /\ ref' = rf2
           /\ rLive' = [r \in Conns |-> IF r \in detach THEN FALSE ELSE rLive[r]]
           /\ rFrozen' = [r \in Conns |->
                            IF r \in detach
                            THEN SubSeq(oldList, rIdx[r] + 1, Len(oldList))
                            ELSE rFrozen[r]]
           /\ rIdx' = [r \in Conns |-> IF r \in detach THEN 0 ELSE rIdx[r]]
           /\ objHist' = GcHist([objHist EXCEPT ![o] = h2], store, rf2)
           /\ objDb' = GcDb(objDb, store, rf2)
           /\ bPending' = [bPending EXCEPT ![c] = recips]
           /\ bTargets' = [bTargets EXCEPT ![c] = conns[k]]
           /\ outKind' = [outKind EXCEPT ![c] = "assistant"]
           /\ pc' = [pc EXCEPT ![c] = IF recips = {} THEN "ret" ELSE "bcast"]
           /\ callDb' = [callDb EXCEPT ![c] = NoDb]
    /\ UNCHANGED <<hbFailed, pureVars, nextConn, keyOf, sock, closeCode, hb, conns, store,
                   order, actOrder, actAge, cur, swPc, swRest, swKey, swSnap,
                   rx, sent, touchAge, lastSet, lostSince>>

\* handle_prompt raised: the agent_error frame is sent to the sender
\* (lines 242-248); if that send raises, the exception leaves
\* handle_message and the endpoint goes to its finally clause.
PromptFail(c) ==
    /\ pc[c] = "prompt"
    /\ \E out \in DirectSend(c) :
         /\ pc' = [pc EXCEPT ![c] = IF out = "raised" THEN "aborted" ELSE "errsent"]
         /\ sent' = [sent EXCEPT ![c] = LogSend(@, c, "agent_error", out = "ok")]
    /\ outKind' = [outKind EXCEPT ![c] = "agent_error"]
    /\ inFlight' = SeqRemove(inFlight, c)
    /\ overtaken' = overtaken \ {c}
    /\ ref' = [ref EXCEPT ![c] = NoObj]
    /\ objDb' = GcDb(objDb, store, ref')
    /\ objHist' = GcHist(objHist, store, ref')
    /\ callDb' = [callDb EXCEPT ![c] = NoDb]
    /\ UNCHANGED <<hbFailed, echoMarks, replayedFrom,
                   pureVars, nextConn, keyOf, sock, closeCode, hb, conns, store,
                   order, actOrder, actAge, rIdx, rLive, rFrozen, cur, bPending,
                   swPc, swRest, swKey, swSnap, rx, bTargets, touchAge, lastSet,
                   lostSince>>

\* The error path resumed after the send to the sender: the error is
\* broadcast to the key, the sender excluded (lines 249-255).
ErrBroadcast(c) ==
    /\ pc[c] = "errsent"
    /\ LET recips == Recipients(keyOf[c], {c})
       IN  /\ bPending' = [bPending EXCEPT ![c] = recips]
           /\ bTargets' = [bTargets EXCEPT ![c] = conns[keyOf[c]] \ {c}]
           /\ pc' = [pc EXCEPT ![c] = IF recips = {} THEN "ret" ELSE "bcast"]
    /\ UNCHANGED <<hbFailed, inFlight, overtaken, echoMarks, replayedFrom,
                   pureVars, nextConn, keyOf, sock, closeCode, hb, conns, store,
                   order, objDb, objHist, actOrder, actAge, ref, rIdx, rLive,
                   rFrozen, cur, callDb, outKind, swPc, swRest, swKey, swSnap,
                   rx, sent, touchAge, lastSet, lostSince>>

\* One send task of a _broadcast runs (lines 445-453); gather keeps every
\* exception (return_exceptions=True), so a failed send only fails.  After
\* the last one the handler is resumed and returns.
BcastSend(c) ==
    /\ pc[c] = "bcast"
    /\ LET r == Min(bPending[c])
           left == bPending[c] \ {r}
       IN  /\ sent' = [sent EXCEPT ![c] = LogSend(@, r, outKind[c], sock[r] = "open")]
           /\ bPending' = [bPending EXCEPT ![c] = left]
           /\ pc' = [pc EXCEPT ![c] = IF left = {} THEN "ret" ELSE "bcast"]
    /\ UNCHANGED <<hbFailed, inFlight, overtaken, echoMarks, replayedFrom,
                   pureVars, nextConn, keyOf, sock, closeCode, hb, conns, store,
                   order, objDb, objHist, actOrder, actAge, ref, rIdx, rLive,
                   rFrozen, cur, callDb, outKind, swPc, swRest, swKey, swSnap,
                   rx, bTargets, touchAge, lastSet, lostSince>>

\* handle_message returned; the endpoint loops to receive_json (line 507).
LoopBack(c) ==
    /\ pc[c] = "ret"
    /\ pc' = [pc EXCEPT ![c] = "recv"]
    /\ cur' = [cur EXCEPT ![c] = NoFrame]
    /\ sent' = [sent EXCEPT ![c] = EmptyLog]
    /\ bTargets' = [bTargets EXCEPT ![c] = {}]
    /\ echoMarks' = [r \in Conns |-> {m \in echoMarks[r] : m.h # c}]
    /\ replayedFrom' = [r \in Conns |-> replayedFrom[r] \ {c}]
    /\ outKind' = [outKind EXCEPT ![c] = "none"]
    /\ UNCHANGED <<hbFailed, inFlight, overtaken, pureVars, nextConn, keyOf, sock, closeCode, hb, conns, store,
                   order, objDb, objHist, actOrder, actAge, ref, rIdx, rLive,
                   rFrozen, callDb, bPending, swPc, swRest, swKey, swSnap, rx,
                   touchAge, lastSet, lostSince>>

\* The peer closes its end of the transport.
ClientClose(c) ==
    /\ pc[c] \in {"hs", "replay", "recv", "prompt", "errsent", "bcast", "ret"}
    /\ sock[c] = "open"
    /\ sock' = [sock EXCEPT ![c] = "client"]
    /\ UNCHANGED <<pureVars, nextConn, keyOf, pc, closeCode, hb, conns, store,
                   order, objDb, objHist, actOrder, actAge, ref, rIdx, rLive,
                   rFrozen, cur, callDb, bPending, outKind, swPc, swRest, swKey,
                   swSnap, obsVars>>

\* ------------------------------------------------------------- disconnect
\* The endpoint's finally clause: receive_json raised on a closed transport,
\* or an exception left handle_message (lines 533-539, 149-162).
EndpointEnds(c) ==
    IF pc[c] = "recv" THEN sock[c] # "open" ELSE pc[c] \in {"rejected", "aborted"}

\* A disconnect that empties the whole list of the key.
RemainingNone(k, c) == {}

\* The list of the key after the removal of the one entry whose websocket is
\* the caller's (lines 153-157).
Remaining(k, c) == conns[k] \ {c}

Disconnect(c) ==
    /\ EndpointEnds(c)
    /\ LET k == keyOf[c]
           found == c \in conns[k]
           left == Remaining(k, c)
           popped == conns[k] # {} /\ left = {}
       IN  /\ conns' = [conns EXCEPT ![k] = left]
           /\ actOrder' = IF popped THEN SeqRemove(actOrder, k) ELSE actOrder
           /\ actAge' = IF popped THEN [actAge EXCEPT ![k] = 0] ELSE actAge
           /\ hb' = [hb EXCEPT ![c] = IF found /\ @ # "none" THEN "stopped" ELSE @]
    /\ pc' = [pc EXCEPT ![c] = "done"]
    /\ cur' = [cur EXCEPT ![c] = NoFrame]
    /\ sent' = [sent EXCEPT ![c] = EmptyLog]
    /\ outKind' = [outKind EXCEPT ![c] = "none"]
    /\ UNCHANGED <<hbFailed, inFlight, overtaken, echoMarks, replayedFrom,
                   pureVars, nextConn, keyOf, sock, closeCode, store, order,
                   objDb, objHist, ref, rIdx, rLive, rFrozen, callDb, bPending,
                   swPc, swRest, swKey, swSnap, rx, bTargets, touchAge, lastSet,
                   lostSince>>

\* -------------------------------------------------------------- heartbeat
\* The heartbeat task wakes and emits (lines 462-476): a send that raises
\* through _send_json ends the task.
HeartbeatEmit(c) ==
    /\ hb[c] = "run"
    /\ \E out \in DirectSend(c) :
         /\ hb' = [hb EXCEPT ![c] = IF out = "raised" THEN "exited" ELSE @]
         /\ hbFailed' = IF out = "ok" THEN hbFailed ELSE hbFailed \cup {c}
    /\ UNCHANGED <<pureVars, nextConn, keyOf, pc, sock, closeCode, conns, store,
                   order, objDb, objHist, actOrder, actAge, ref, rIdx, rLive,
                   rFrozen, cur, callDb, bPending, outKind, swPc, swRest, swKey,
                   swSnap, rx, sent, bTargets, touchAge, lastSet, lostSince,
                   echoMarks, replayedFrom, inFlight, overtaken>>

\* ------------------------------------------------------------------ clock
\* A span longer than INACTIVITY_TIMEOUT passes without any step of the
\* program: every recorded time is now older than the timeout.
Older(age) == INACTIVITY_TIMEOUT + 1

\* The cleanup task reads the clock once per sweep (line 343); a sweep is
\* short against the timeout, so the clock stands while one is suspended.
Tick ==
    /\ swPc = "idle"
    /\ actAge' = [k \in Keys |-> IF InSeq(actOrder, k) THEN Older(actAge[k]) ELSE 0]
    /\ touchAge' = [k \in Keys |-> IF store[k] # NoObj THEN Older(touchAge[k]) ELSE 0]
    /\ <<actAge', touchAge'>> # <<actAge, touchAge>>
    /\ UNCHANGED <<hbFailed, inFlight, overtaken, echoMarks, replayedFrom,
                   pureVars, nextConn, keyOf, pc, sock, closeCode, hb, conns,
                   store, order, objDb, objHist, actOrder, ref, rIdx, rLive,
                   rFrozen, cur, callDb, bPending, outKind, swPc, swRest, swKey,
                   swSnap, rx, sent, bTargets, lastSet, lostSince>>

\* ---------------------------------------------------------------- cleanup
\* The structures a sweep works on, as one record.
World ==
    [cs |-> conns, st |-> store, od |-> order, ao |-> actOrder, aa |-> actAge,
     hbs |-> hb, sk |-> sock, cc |-> closeCode,
     pcS |-> swPc, key |-> swKey, snap |-> swSnap, rest |-> swRest]

\* lines 357-359: the three pops for an expired key.
SwPop(W, k) ==
    [W EXCEPT !.cs[k] = {}, !.ao = SeqRemove(@, k), !.aa[k] = 0,
              !.st[k] = NoObj, !.od = SeqRemove(@, k)]

\* lines 354-356: stop the heartbeat of c and close it with 1001.
SwClose(W, c) ==
    [W EXCEPT !.hbs[c] = IF @ = "none" THEN @ ELSE "stopped",
              !.sk[c] = IF @ = "open" THEN "server" ELSE @,
              !.cc[c] = IF W.sk[c] = "open" THEN 1001 ELSE @]

\* lines 366-378: evict the oldest states while the store is over its limit.
RECURSIVE SwEvict(_)
SwEvict(W) ==
    IF Cardinality(Resident(W.st)) > MAX_CHAT_STATES
    THEN LET oldest == Head(W.od)
         IN  IF InSeq(W.ao, oldest)
             THEN IF Expired(W.aa[oldest])
                  THEN SwEvict([W EXCEPT !.st[oldest] = NoObj, !.od = Tail(@),
                                         !.ao = SeqRemove(@, oldest),
                                         !.aa[oldest] = 0])
                  ELSE W
             ELSE SwEvict([W EXCEPT !.st[oldest] = NoObj, !.od = Tail(@)])
    ELSE W

\* lines 351-378, from the head of the for loop to the next await: keys
\* without connections are popped at once; the first connection of a key
\* that has some is closed and the sweep is suspended there.
RECURSIVE SwRun(_, _)
SwRun(W, rest) ==
    IF rest = <<>>
    THEN [SwEvict(W) EXCEPT !.pcS = "idle", !.key = 0, !.snap = {}, !.rest = <<>>]
    ELSE LET k == Head(rest)
             snap == W.cs[k]
         IN  IF snap = {}
             THEN SwRun(SwPop(W, k), Tail(rest))
             ELSE [SwClose(W, Min(snap)) EXCEPT
                      !.pcS = "closing", !.key = k,
                      !.snap = snap \ {Min(snap)}, !.rest = Tail(rest)]

\* lines 344-348: the keys whose last activity is older than the timeout.
ExpiredKeys == SelectSeq(actOrder, LAMBDA k : Expired(actAge[k]))

SwApply(R) ==
    /\ conns' = R.cs
    /\ store' = R.st
    /\ order' = R.od
    /\ actOrder' = R.ao
    /\ actAge' = R.aa
    /\ hb' = R.hbs
    /\ sock' = R.sk
    /\ closeCode' = R.cc
    /\ swPc' = R.pcS
    /\ swKey' = R.key
    /\ swSnap' = R.snap
    /\ swRest' = R.rest
    /\ objDb' = GcDb(objDb, R.st, ref)
    /\ objHist' = GcHist(objHist, R.st, ref)
    /\ touchAge' = TouchAfter(touchAge, store, R.st)
    /\ lostSince' = LostAfter(lostSince, lastSet, store, R.st)
    /\ UNCHANGED <<hbFailed, inFlight, overtaken, echoMarks, replayedFrom,
                   pureVars, nextConn, keyOf, pc, ref, rIdx, rLive, rFrozen,
                   cur, callDb, bPending, outKind, rx, sent, bTargets, lastSet>>

\* cleanup_loop wakes (lines 322-326; the task exists once a connection was
\* made) and cleanup runs to its first await or to its end.
SweepStart ==
    /\ swPc = "idle"
    /\ nextConn > 1
    /\ ExpiredKeys # <<>>
    /\ SwApply(SwRun(World, ExpiredKeys))

\* cleanup resumed after closing a connection: close the next one of the
\* snapshot, or pop the key and go on with the remaining keys.
SweepResume ==
    /\ swPc = "closing"
    /\ SwApply(IF swSnap # {}
               THEN [SwClose(World, Min(swSnap)) EXCEPT !.snap = swSnap \ {Min(swSnap)}]
               ELSE SwRun(SwPop(World, swKey), swRest))

\* ------------------------------------------------------------------- Next
Next ==
    \/ \E k \in Keys : Connect(k)
    \/ \E c \in Conns : Replay(c)
    \/ \E c \in Conns, f \in Frames : Receive(c, f)
    \/ \E c \in Conns : ParseError(c)
    \/ \E c \in Conns : BadJson(c)
    \/ \E c \in Conns : PromptReturn(c)
    \/ \E c \in Conns : PromptFail(c)
    \/ \E c \in Conns : ErrBroadcast(c)
    \/ \E c \in Conns : BcastSend(c)
    \/ \E c \in Conns : LoopBack(c)
    \/ \E c \in Conns : ClientClose(c)
    \/ \E c \in Conns : Disconnect(c)
    \/ \E c \in Conns : HeartbeatEmit(c)
    \/ Tick
    \/ SweepStart
    \/ SweepResume

Spec == Init /\ [][Next]_vars

\* ---------------------------------------------------- scenario specifications
\* The full Next is too large to enumerate; each specification below runs
\* the same actions for one part of the program, with its own bounds on the
\* connections opened and the keys used.
UserFrames == {Frame("Message", FALSE, "none", "user", x) : x \in Contents}
SetFrames ==
    {Frame("Command", FALSE, a, "none", v) :
        a \in {"database", "database_url"}, v \in DbValues}
HeartbeatFrames == {Frame("Heartbeat", TRUE, "none", "none", 0)}
\* One user message: who is sent a reply does not depend on the content.
OneUserFrame == {Frame("Message", FALSE, "none", "user", 1)}

\* Set commands of every argument key, tagged and plain.
CommandFrames ==
    {Frame("Command", FALSE, a, "none", v) :
        a \in {"database", "database_url", "role", "model", "database_plain"},
        v \in DbValues}

\* Frames of the Heartbeat kind with every payload, and frames of other
\* kinds with the heartbeat variant populated.
EchoedFrames ==
    {Frame("Heartbeat", TRUE, "none", "none", 0),
     Frame("Heartbeat", FALSE, "none", "none", 0),
     Frame("Heartbeat", FALSE, "none", "user", 1),
     Frame("Heartbeat", FALSE, "database", "none", 1),
     Frame("Message", TRUE, "none", "user", 1),
     Frame("Command", TRUE, "database", "none", 1)}

\* Frames of other kinds whose payload has no variant populated.
EmptyFrames ==
    {Frame("Message", FALSE, "none", "none", 0),
     Frame("Command", FALSE, "none", "none", 0)}

\* Commands: connections of one key that send Set commands.
NextCmd ==
    \/ \E k \in 1..CmdKeys : nextConn <= CmdConns /\ Connect(k)
    \/ \E c \in Conns : Replay(c)
    \/ \E c \in Conns, f \in CommandFrames : Receive(c, f)
    \/ \E c \in Conns : LoopBack(c)
    \/ \E c \in Conns : ClientClose(c)
    \/ \E c \in Conns : Disconnect(c)

SpecCmd == Init /\ [][NextCmd]_vars

\* Echoes and rejections: the first connection gives its key a history and
\* an override; every connection sends heartbeats and empty payloads.
NextEcho ==
    \/ \E k \in 1..EchoKeys : nextConn <= EchoConns /\ Connect(k)
    \/ \E c \in Conns : Replay(c)
    \/ \E f \in OneUserFrame \cup {Frame("Command", FALSE, "database", "none", 1)} :
          Receive(1, f)
    \/ \E c \in Conns, f \in EchoedFrames \cup EmptyFrames : Receive(c, f)
    \/ \E c \in Conns : PromptReturn(c)
    \/ \E c \in Conns : BcastSend(c)
    \/ \E c \in Conns : LoopBack(c)

SpecEcho == Init /\ [][NextEcho]_vars

\* Connection cap: connects, closes, disconnects, heartbeats and sweeps.
NextCap ==
    \/ \E k \in 1..CapKeys : nextConn <= CapConns /\ Connect(k)
    \/ \E c \in Conns : Replay(c)
    \/ \E c \in Conns : ClientClose(c)
    \/ \E c \in Conns : Disconnect(c)
    \/ \E c \in Conns : HeartbeatEmit(c)
    \/ Tick
    \/ SweepStart
    \/ SweepResume

SpecCap == Init /\ [][NextCap]_vars

\* Store capacity: connects and inbound heartbeat frames on several keys,
\* with the clock and the sweeps.
NextEvict ==
    \/ \E k \in 1..EvictKeys : nextConn <= EvictConns /\ Connect(k)
    \/ \E c \in Conns : Replay(c)
    \/ \E c \in Conns, f \in HeartbeatFrames : Receive(c, f)
    \/ \E c \in Conns : LoopBack(c)
    \/ \E c \in Conns : ClientClose(c)
    \/ \E c \in Conns : Disconnect(c)
    \/ Tick
    \/ SweepStart
    \/ SweepResume

SpecEvict == Init /\ [][NextEvict]_vars

\* Rooms: user messages, both outcomes of the prompt handler, broadcasts,
\* peers that close and endpoints that end.
NextRoom ==
    \/ \E k \in 1..RoomKeys : nextConn <= RoomConns /\ Connect(k)
    \/ \E c \in Conns : Replay(c)
    \/ \E c \in Conns, f \in OneUserFrame : Receive(c, f)
    \/ \E c \in Conns : PromptReturn(c)
    \/ \E c \in Conns : PromptFail(c)
    \/ \E c \in Conns : ErrBroadcast(c)
    \/ \E c \in Conns : BcastSend(c)
    \/ \E c \in Conns : LoopBack(c)
    \/ \E c \in Conns : ClientClose(c)
    \/ \E c \in Conns : Disconnect(c)

SpecRoom == Init /\ [][NextRoom]_vars

\* Faulty frames: connections of one key that send user messages whose
\* handler calls succeed or raise, frames model_validate rejects, text that
\* is not JSON and empty payloads.
NextFault ==
    \/ \E k \in 1..FaultKeys : nextConn <= FaultConns /\ Connect(k)
    \/ \E c \in Conns : Replay(c)
    \/ \E c \in Conns, f \in OneUserFrame \cup EmptyFrames : Receive(c, f)
    \/ \E c \in Conns : ParseError(c)
    \/ \E c \in Conns : BadJson(c)
    \/ \E c \in Conns : PromptReturn(c)
    \/ \E c \in Conns : PromptFail(c)
    \/ \E c \in Conns : ErrBroadcast(c)
    \/ \E c \in Conns : BcastSend(c)
    \/ \E c \in Conns : LoopBack(c)
    \/ \E c \in Conns : Disconnect(c)

SpecFault == Init /\ [][NextFault]_vars

\* Message payloads under every kind: user messages in frames of the kinds
\* Message, Handshake and Command, and a Message frame of the assistant role.
MessageFrames ==
    {Frame("Message", FALSE, "none", "user", 1),
     Frame("Message", FALSE, "none", "assistant", 1),
     Frame("Handshake", FALSE, "none", "user", 1),
     Frame("Command", FALSE, "none", "user", 1)}

NextKind ==
    \/ \E k \in 1..KindKeys : nextConn <= KindConns /\ Connect(k)
    \/ \E c \in Conns : Replay(c)
    \/ \E c \in Conns, f \in MessageFrames : Receive(c, f)
    \/ \E c \in Conns : PromptReturn(c)
    \/ \E c \in Conns : BcastSend(c)
    \/ \E c \in Conns : LoopBack(c)

SpecKind == Init /\ [][NextKind]_vars

\* Leaving a room: the first connection sends user messages, which fill the
\* history of its key; connections close and are disconnected while others
\* stay and new ones arrive.
NextLeave ==
    \/ \E k \in 1..LeaveKeys : nextConn <= LeaveConns /\ Connect(k)
    \/ \E c \in Conns : Replay(c)
    \/ \E f \in OneUserFrame : Receive(1, f)
    \/ \E c \in Conns : PromptReturn(c)
    \/ \E c \in Conns : BcastSend(c)
    \/ \E c \in Conns : LoopBack(c)
    \/ \E c \in Conns : ClientClose(c)
    \/ \E c \in Conns : Disconnect(c)

SpecLeave == Init /\ [][NextLeave]_vars

\* Replies under sweeps: user messages on one key while the cleanup task
\* closes and pops it.
NextReap ==
    \/ \E k \in 1..ReapKeys : nextConn <= ReapConns /\ Connect(k)
    \/ \E c \in Conns : Replay(c)
    \/ \E c \in Conns, f \in UserFrames : Receive(c, f)
    \/ \E c \in Conns : PromptReturn(c)
    \/ \E c \in Conns : PromptFail(c)
    \/ \E c \in Conns : ErrBroadcast(c)
    \/ \E c \in Conns : BcastSend(c)
    \/ \E c \in Conns : LoopBack(c)
    \/ \E c \in Conns : Disconnect(c)
    \/ Tick
    \/ SweepStart
    \/ SweepResume

SpecReap == Init /\ [][NextReap]_vars

\* Data source override: Set commands and user messages, with evictions
\* by connects on other keys and removals by sweeps.  The override is
\* passed when the prompt handler is called, whatever the call returns; the
\* calls here fail, which keeps the histories empty.
NextDb ==
    \/ \E k \in 1..DbKeys : nextConn <= DbConns /\ Connect(k)
    \/ \E c \in Conns : Replay(c)
    \/ \E c \in Conns, f \in UserFrames \cup SetFrames : Receive(c, f)
    \/ \E c \in Conns : PromptFail(c)
    \/ \E c \in Conns : ErrBroadcast(c)
    \/ \E c \in Conns : BcastSend(c)
    \/ \E c \in Conns : LoopBack(c)
    \/ \E c \in Conns : Disconnect(c)
    \/ Tick
    \/ SweepStart
    \/ SweepResume

SpecDb == Init /\ [][NextDb]_vars

\* Idle keys: connects, closes and disconnects with a clock that keeps
\* running and a cleanup task that keeps sweeping (cleanup_loop sleeps
\* CLEANUP_INTERVAL and calls cleanup, for ever).
NextIdle ==
    \/ \E k \in 1..IdleKeys : nextConn <= IdleConns /\ Connect(k)
    \/ \E c \in Conns : Replay(c)
    \/ \E c \in Conns, f \in HeartbeatFrames : Receive(c, f)
    \/ \E c \in Conns : LoopBack(c)
    \/ \E c \in Conns : ClientClose(c)
    \/ \E c \in Conns : Disconnect(c)
    \/ Tick
    \/ SweepStart
    \/ SweepResume

SpecIdle ==
    /\ Init
    /\ [][NextIdle]_vars
    /\ WF_vars(Tick)
    /\ WF_vars(SweepStart)
    /\ WF_vars(SweepResume)

\* ================================================================== claims
\* ------------------------------------------------------- add_to_history
\* The history the last call trimmed: the old history with the new entry.
PreTrim == Append(histPre, histArg)

\* h without its n oldest non-system entries, every other entry in place.
RECURSIVE DropOldest(_, _)
DropOldest(h, n) ==
    IF n <= 0 \/ h = <<>> THEN h
    ELSE IF IsSystem(Head(h)) THEN <<Head(h)>> \o DropOldest(Tail(h), n)
    ELSE DropOldest(Tail(h), n - 1)

\* C6: after every add_to_history call, whatever the roles of the entries,
\* the history holds at most MAX_CHAT_HISTORY_LENGTH entries.
C6_HistoryBounded == Len(hist) <= MAX_CHAT_HISTORY_LENGTH

\* C7: when an append makes the history longer than the maximum, the result
\* is the pre-trim history without its oldest non-system entries: all system
\* entries, the most recent (max - system_count) others, in their old order.
C7_TrimKeepsNewestInOrder ==
    (histArg.role # "none" /\ TooLong(PreTrim)) =>
        LET nSys == Len(SelectSeq(PreTrim, IsSystem))
            nOther == Len(SelectSeq(PreTrim, NotSystem))
            keep == IF MAX_CHAT_HISTORY_LENGTH - nSys > 0
                    THEN MAX_CHAT_HISTORY_LENGTH - nSys ELSE 0
        IN  hist = DropOldest(PreTrim, nOther - keep)

\* --------------------------------------------------------- connection cap
\* C2: in every reachable state no key has more than
\* MAX_CONNECTIONS_PER_CHAT registered connections.
C2_CapNeverExceeded ==
    \A k \in Keys : Cardinality(conns[k]) <= MAX_CONNECTIONS_PER_CHAT

\* A key is full and a further connect on it has been turned away.
C2_FullKeyRejected ==
    \E c \in Conns :
        /\ closeCode[c] = 1008
        /\ Cardinality(conns[keyOf[c]]) = MAX_CONNECTIONS_PER_CHAT

\* C3: a connect on a key that already holds MAX_CONNECTIONS_PER_CHAT
\* connections is closed with code 1008 in a step that changes neither the
\* registry nor any heartbeat task, as does the end of its endpoint, and a
\* connection closed with 1008 is never registered, never sent a Handshake
\* or history frame and never has a heartbeat task.
C3_RejectedLeavesNoTrace ==
    [][\A c \in Conns :
         /\ (/\ pc[c] = "new"
             /\ pc'[c] # "new"
             /\ Cardinality(conns[keyOf'[c]]) >= MAX_CONNECTIONS_PER_CHAT)
            => /\ pc'[c] = "rejected"
               /\ closeCode'[c] = 1008
               /\ conns' = conns
               /\ hb' = hb
         /\ (pc[c] = "rejected" /\ pc'[c] # "rejected")
            => /\ conns' = conns
               /\ hb' = hb
         /\ closeCode'[c] = 1008
            => /\ rx'[c] = {}
               /\ hb'[c] = "none"
               /\ \A k \in Keys : c \notin conns'[k]]_vars

\* A rejected endpoint has ended and the key still holds its full set of
\* connections, all with running heartbeats.
C3_RejectedAndOthersRun ==
    \E c \in Conns :
        /\ closeCode[c] = 1008
        /\ pc[c] = "done"
        /\ Cardinality(conns[keyOf[c]]) = MAX_CONNECTIONS_PER_CHAT
        /\ \A r \in conns[keyOf[c]] : hb[r] = "run"

\* --------------------------------------------------------- store capacity
\* C4: in every reachable state at most MAX_CHAT_STATES ChatState entries
\* are resident.
C4_StoreBounded == Cardinality(Resident(store)) <= MAX_CHAT_STATES

\* C5: a connect that inserts a new key and evicts a resident one never
\* evicts a key touched within the inactivity timeout while another
\* resident key has been idle longer than the timeout.
C5_VictimNotFreshWhileIdleExists ==
    [][\A v \in Keys :
         (/\ nextConn' # nextConn
          /\ store[v] # NoObj
          /\ store'[v] = NoObj)
         => ~ (/\ ~ Expired(touchAge[v])
               /\ \E o \in Resident(store) \ {v} : Expired(touchAge[o]))]_vars

\* ------------------------------------------------------------------ rooms
\* The handler of c has begun a broadcast.
Broadcasting(c) == pc[c] = "bcast" \/ (pc[c] = "ret" /\ outKind[c] # "none")

\* Send attempts the broadcast of c has made to r: the log of c without the
\* direct send of the error frame to the sender.
BcastAttempts(c, r) ==
    Len(sent[c][r]) - (IF outKind[c] = "agent_error" /\ r = c THEN 1 ELSE 0)

\* C8: while and after a broadcast, every connection that was registered
\* under the key when it began and is not excluded has had exactly one send
\* attempt once its send task has run, no other connection has had any,
\* and the broadcast returns to its caller with all attempts made, whether
\* or not some of them failed.
C8_OneAttemptPerRecipient ==
    \A c \in Conns :
        Broadcasting(c) =>
            /\ bPending[c] \subseteq bTargets[c]
            /\ \A r \in Conns :
                 BcastAttempts(c, r) =
                     (IF r \in bTargets[c] \ bPending[c] THEN 1 ELSE 0)
            /\ pc[c] = "ret" => bPending[c] = {}

\* A broadcast has returned after a failed attempt to one recipient and a
\* delivered one to a recipient served after it.
C8_FailedThenDelivered ==
    \E c \in Conns, r1 \in Conns, r2 \in Conns :
        /\ pc[c] = "ret"
        /\ r1 < r2
        /\ {r1, r2} \subseteq bTargets[c]
        /\ sent[c][r1] # <<>> /\ ~ sent[c][r1][Len(sent[c][r1])].ok
        /\ sent[c][r2] # <<>> /\ sent[c][r2][Len(sent[c][r2])].ok

\* The connections the error of c's prompt is owed to beside the sender:
\* those registered when the broadcast began or, if the handler ended
\* before it, when it ended.
ErrorRoom(c) ==
    IF pc[c] = "aborted" THEN conns[keyOf[c]] \ {c} ELSE bTargets[c]

\* C9: when the prompt handler has raised and handle_message is over, the
\* sender has been sent exactly one agent_error frame and every other
\* connection registered on the key has been sent it exactly once.
C9_ErrorReachesSenderAndRoom ==
    \A c \in Conns :
        (outKind[c] = "agent_error" /\ pc[c] \in {"ret", "aborted"}) =>
            /\ Len(sent[c][c]) = 1
            /\ sent[c][c][1].kind = "agent_error"
            /\ \A r \in ErrorRoom(c) : Len(sent[c][r]) = 1

\* C1: when handle_message has returned for a user message on a connection
\* that is still open, exactly one reply has been delivered to it.
C1_UserFrameGetsOneReply ==
    \A c \in Conns :
        (pc[c] = "ret" /\ Dispatch(cur[c]) = "prompt" /\ sock[c] = "open") =>
            Len(SelectSeq(sent[c][c], LAMBDA e : e.ok)) = 1

C11_IdleKeyReaped ==
    \A k \in Keys :
        (store[k] # NoObj /\ Expired(touchAge[k]))
            ~> (store[k] = NoObj \/ ~ Expired(touchAge[k]))

\* ----------------------------------------------------------------- replay
\* C12: between the Handshake frame of a connect and the last frame of its
\* history replay no other frame is delivered to the new connection: no
\* handler delivers a frame to a connection whose replay has records left.
C12_NoFrameBeforeReplayEnds ==
    [][\A c \in Conns, r \in Conns :
         (/\ Len(sent'[c][r]) > Len(sent[c][r])
          /\ sent'[c][r][Len(sent'[c][r])].ok)
         => ~ (pc[r] \in {"hs", "replay"} /\ ReplayRest(r) # <<>>)]_vars

\* C13: no connection is delivered the same chat entry twice: a reply that
\* the replay of r delivered to r is not also delivered to r by the
\* broadcast of the handler that produced it.
C13_NoEntryTwice ==
    \A r \in Conns, c \in Conns :
        c \in replayedFrom[r] =>
            ~ (sent[c][r] # <<>> /\ sent[c][r][Len(sent[c][r])].ok)

\* ---------------------------------------------------------- append order
\* C14: the entries of a user frame are never appended to the history of
\* its key after those of a user frame that was received later on the key.
C14_AppendOrderIsReceiptOrder ==
    [][\A c \in Conns :
         (pc[c] = "prompt" /\ outKind'[c] = "assistant") => c \notin overtaken]_vars

C16_PairsNeverShare ==
    \A e \in Ends :
        endPair[e] # NoPair =>
            /\ kGot[e] \subseteq {endPair[e]}
            /\ kStore[KeyOfPair(endPair[e])].writers \subseteq {endPair[e]}
            /\ kStore[KeyOfPair(endPair[e])].db \in {NoPair, endPair[e]}

\* -------------------------------------------------------------- round trip
\* C17: decoding the dictionary to_dict produced for a built message yields
\* a message equal to the built one.
C17_RoundTrip ==
    (cPc = "decoded" /\ cMsg # NoMsg) => cBack = cMsg

\* ------------------------------------------------------------ frame effects
\* The override and the history a key has, whether its state is resident or
\* not.
DbOf(st, od, k) == IF st[k] = NoObj THEN NoDb ELSE od[st[k]]
HistOf(st, oh, k) == IF st[k] = NoObj THEN <<>> ELSE oh[st[k]]

\* The step in which handle_message takes the frame cur'[c] from c.
Handles(c) == pc[c] = "recv" /\ pc'[c] \in {"ret", "prompt"}

ChatStatesKept ==
    \A j \in Keys :
        /\ DbOf(store', objDb', j) = DbOf(store, objDb, j)
        /\ HistOf(store', objHist', j) = HistOf(store, objHist, j)

\* The argument key a Set command frame carries on the wire.
WireSetKey(f) == IF f.cmd = "database_plain" THEN "database" ELSE f.cmd

\* C18: a Command-kind frame with a Set command whose argument key is
\* database or database_url sets the override of the key to its value and
\* sends one system confirmation, to the sender only; with the key role or
\* model it changes no ChatState and sends nothing.
C18_SetCommandEffect ==
    [][\A c \in Conns :
         (/\ Handles(c)
          /\ cur'[c].kind = "Command" /\ ~ cur'[c].hbeat
          /\ cur'[c].cmd \notin {"none", "get"})
         => /\ WireSetKey(cur'[c]) \in {"database", "database_url"}
               => /\ DbOf(store', objDb', keyOf[c]) = cur'[c].val
                  /\ sent'[c] = LogSend(EmptyLog, c, "SystemText", TRUE)
            /\ WireSetKey(cur'[c]) \in {"role", "model"}
               => /\ ChatStatesKept
                  /\ sent'[c] = EmptyLog]_vars

\* C19: a frame of the Heartbeat kind, or with the heartbeat variant
\* populated, is answered with one Heartbeat frame to the sender only; the
\* prompt handler is not called, no broadcast is started and the history and
\* override of every key stay as they are.
C19_HeartbeatEchoOnly ==
    [][\A c \in Conns :
         (Handles(c) /\ (cur'[c].kind = "Heartbeat" \/ cur'[c].hbeat))
         => /\ sent'[c] = LogSend(EmptyLog, c, "Heartbeat", TRUE)
            /\ pc'[c] = "ret"
            /\ bPending'[c] = {}
            /\ ChatStatesKept]_vars

\* A frame of kind Message that carries the heartbeat variant next to a user
\* message was echoed on a key that has a history, an override and a second
\* connection.
C19_EchoedWithUserMessage ==
    \E c \in Conns, r \in Conns :
        /\ c # r /\ keyOf[c] \in Keys
        /\ {c, r} \subseteq conns[keyOf[c]]
        /\ pc[c] = "ret"
        /\ cur[c] = Frame("Message", TRUE, "none", "user", 1)
        /\ sent[c][c] = <<[kind |-> "Heartbeat", ok |-> TRUE]>>
        /\ HistOf(store, objHist, keyOf[c]) # <<>>
        /\ DbOf(store, objDb, keyOf[c]) # NoDb

\* C20 as stated: every frame whose payload has no variant populated is
\* answered with one invalid_payload Error frame to the sender only, without
\* a prompt handler call, a broadcast or a change of any ChatState.
C20_EmptyPayloadRejected ==
    [][\A c \in Conns :
         (/\ Handles(c)
          /\ ~ cur'[c].hbeat /\ cur'[c].cmd = "none" /\ cur'[c].msg = "none"
          /\ cur'[c].kind # "Undecodable")
         => /\ sent'[c] = LogSend(EmptyLog, c, "invalid_payload", TRUE)
            /\ pc'[c] = "ret"
            /\ bPending'[c] = {}
            /\ ChatStatesKept]_vars

\* C20 amended: the same for the frames whose kind is not Heartbeat.
C20_EmptyPayloadRejectedUnlessHeartbeat ==
    [][\A c \in Conns :
         (/\ Handles(c)
          /\ ~ cur'[c].hbeat /\ cur'[c].cmd = "none" /\ cur'[c].msg = "none"
          /\ cur'[c].kind \notin {"Undecodable", "Heartbeat"})
         => /\ sent'[c] = LogSend(EmptyLog, c, "invalid_payload", TRUE)
            /\ pc'[c] = "ret"
            /\ bPending'[c] = {}
            /\ ChatStatesKept]_vars

\* An empty payload was rejected on a key that has a history, an override
\* and a second connection, which was sent nothing.
C20_RejectedInRoom ==
    \E c \in Conns, r \in Conns :
        /\ c # r /\ keyOf[c] \in Keys
        /\ {c, r} \subseteq conns[keyOf[c]]
        /\ pc[c] = "ret"
        /\ cur[c] = Frame("Message", FALSE, "none", "none", 0)
        /\ sent[c][c] = <<[kind |-> "invalid_payload", ok |-> TRUE]>>
        /\ sent[c][r] = <<>>
        /\ HistOf(store, objHist, keyOf[c]) # <<>>
        /\ DbOf(store, objDb, keyOf[c]) # NoDb

\* ------------------------------------------------------------ faulty frames
\* C21: a frame that fails to decode, has an unsupported payload or whose
\* prompt handler call raises does not end the receive loop of a connection
\* whose transport is open (the endpoint reaches its finally clause only on
\* a transport failure) and does not change the history of any key.
C21_FaultyFrameKeepsLoop ==
    [][\A c \in Conns :
         /\ (pc[c] # "aborted" /\ pc'[c] = "aborted") => sock[c] # "open"
         /\ (pc[c] = "recv" /\ pc'[c] \in {"ret", "aborted"}
             /\ cur'[c].kind \in {"Undecodable", "NotJson"})
            => \A j \in Keys :
                 HistOf(store', objHist', j) = HistOf(store, objHist, j)]_vars

\* ------------------------------------------------------- sweeps and frames
\* A step of the cleanup task: no endpoint moves and no connection is made.
SweepStep == pc' = pc /\ nextConn' = nextConn

\* C22: a sweep removes the state or the registry entry of a key only if
\* the last connect or frame on the key is older than the inactivity
\* timeout at the moment of the removal.
C22_SweepRemovesOnlyIdleKeys ==
    [][SweepStep =>
         \A k \in Keys :
             (\/ store[k] # NoObj /\ store'[k] = NoObj
              \/ conns[k] # {} /\ conns'[k] = {})
             => Expired(touchAge[k])]_vars

\* --------------------------------------------------- heartbeat after teardown
\* C23: once the endpoint's disconnect has completed for a connection, or
\* the cleanup task has closed it, its heartbeat task is not running.
C23_NoHeartbeatAfterTeardown ==
    \A c \in Conns :
        (\/ pc[c] = "done" /\ closeCode[c] # 4401
         \/ closeCode[c] = 1001)
        => hb[c] # "run"

\* ------------------------------------------------------- failed heartbeats
\* C24: the heartbeat task of a connection is not running once one of its
\* emits has failed on a closed transport, and the step of a failed emit
\* leaves the registry as it is.
C24_FailedEmitEndsTask ==
    [][\A c \in Conns :
         (c \in hbFailed' /\ c \notin hbFailed)
         => hb'[c] # "run" /\ conns' = conns]_vars

\* ------------------------------------------------------------ prompt calls
\* C25: the prompt handler is called only for a frame of kind Message with
\* a user message; a frame of another kind that holds a user message and a
\* Message frame of another role cause no call, no frame to anyone and no
\* change of any history.
C25_PromptOnlyForUserMessage ==
    [][\A c \in Conns :
         Handles(c)
         => /\ pc'[c] = "prompt"
               => cur'[c].kind = "Message" /\ cur'[c].msg = "user"
            /\ (cur'[c].msg # "none"
                /\ (cur'[c].kind # "Message" \/ cur'[c].msg # "user"))
               => /\ pc'[c] = "ret"
                  /\ sent'[c] = EmptyLog
                  /\ bPending'[c] = {}
                  /\ \A j \in Keys :
                       HistOf(store', objHist', j) = HistOf(store, objHist, j)]_vars

\* Calls side by side: connections of one or two keys whose user messages
\* are answered while other calls are pending.
NextBeside ==
    \/ \E k \in 1..BesideKeys : nextConn <= BesideConns /\ Connect(k)
    \/ \E c \in Conns : Replay(c)
    \/ \E c \in Conns, f \in OneUserFrame : Receive(c, f)
    \/ \E c \in Conns : PromptReturn(c)
    \/ \E c \in Conns : BcastSend(c)
    \/ \E c \in Conns : LoopBack(c)

SpecBeside == Init /\ [][NextBeside]_vars

\* C26: while a connection is suspended in a prompt handler call, every other
\* connection waiting for a frame can receive and dispatch one, a running
\* broadcast can take its next send, every broadcast on the key has the
\* suspended connection among its recipients (sent to or still pending), and
\* the suspended connection itself takes no frame before its call ends.
Suspended(c) == pc[c] = "prompt"
Serving(c) == pc[c] \in {"recv", "prompt", "errsent", "bcast", "ret"}
C27_ServingConnectionRegistered ==
    \A c \in Conns :
        (Serving(c) /\ closeCode[c] = 0) => c \in conns[keyOf[c]]

\* ------------------------------------------------------ registered with state
\* C28: every key with at least one registered connection has a resident
\* ChatState and an entry in the last-activity map.
C28_RegisteredKeyHasState ==
    \A k \in Keys :
        conns[k] # {} => (store[k] # NoObj /\ InSeq(actOrder, k))

\* ------------------------------------------------------ reply and residency
\* C29: when the prompt handler returns for a user message, the user entry
\* and the assistant reply are the last two entries of the history of the
\* ChatState resident in the store for the key at the time of the broadcast.
C29_ReplyInResidentHistory ==
    [][\A c \in Conns :
         (pc[c] = "prompt" /\ outKind'[c] = "assistant")
         => LET h == HistOf(store', objHist', keyOf[c])
                n == Len(h)
            IN  /\ store'[keyOf[c]] # NoObj
                /\ n >= 2
                /\ h[n - 1] = [role |-> "user", content |-> cur[c].val]
                /\ h[n] = [role |-> "assistant", content |-> cur[c].val]]_vars

\* ------------------------------------------------------ failed connect
\* C30: once the endpoint has returned from a connect that raised after the
\* connection was added to the registry, the connection is in no registry
\* entry and its heartbeat task is not running.
C30_FailedConnectLeavesNothing ==
    \A c \in Conns :
        (pc[c] = "done" /\ closeCode[c] = 4401)
        => (c \notin conns[keyOf[c]] /\ hb[c] # "run")

====
